---- MODULE Spec2Model ----
(***************************************************************************)
(* A model of steam-cli's local store (src/src/store.rs): the database     *)
(* file under ~/.steam-cli-rs, the three dictionary tables with their      *)
(* full-text mirrors, the wholesale re-seed, paged listing, fuzzy find and *)
(* the app_cache table.                                                    *)
(*                                                                         *)
(* Text is a sequence of one-character strings.  SQLite's behaviour that   *)
(* the SQL in store.rs relies on (autocommit per statement of a batch,     *)
(* LIMIT/OFFSET with negative values, the unicode61 tokenizer, prefix      *)
(* MATCH, LIKE, BINARY ordering) is modelled by operators named after the  *)
(* SQL they stand for.                                                     *)
(***************************************************************************)
EXTENDS Integers, Sequences, FiniteSets, TLC

VARIABLES
    file,   \* what ~/.steam-cli-rs/steam.db is: "absent", "empty", "corrupt", "db"
    db,     \* the tables of the database file
    store,  \* where the one running process is: "closed" (none runs), "open"
            \* (LocalStore::open returned), "seeded" (handle_dict's
            \* ensure_seeded returned), "done" (its one command has run)
    ret     \* the last operation: its inputs, what it did and what it returned

vars == <<file, db, store, ret>>

----------------------------------------------------------------------------
(* Bounds of the model. *)

\* Width of usize / i64 in bits, scaled down: usize is 0 .. 2^WordBits - 1
\* and i64 is -2^(WordBits-1) .. 2^(WordBits-1) - 1.
WordBits == 3

\* Longest query text handed to find_dict.
MaxQueryLen == 2

\* Largest fetched_at / min_fetched_at value (the smallest is -1).
MaxTime == 2

\* Longest categories / genres array of a detail response.
MaxListLen == 2

\* Most anchors of a search page, most elements of its first facet array, and
\* the longest data-ds-appid attribute.
MaxRows == 2
MaxPairs == 2
MaxAttrLen == 2

----------------------------------------------------------------------------
(* Text. *)

Kinds == {"Tags", "Genres", "Categories"}

LowerChars == {"a", "b"}
UpperChars == {"A"}
DigitChars == {"0", "1", "2", "3", "4", "5", "6", "7", "8", "9"}
OtherChars == {" ", "!", "-", "*", "%"}
AlnumChars == LowerChars \cup UpperChars \cup DigitChars
AllChars == AlnumChars \cup OtherChars

\* char::is_alphanumeric
is_alphanumeric(c) == c \in AlnumChars

\* char lower-casing (str::to_lowercase, SQL LOWER, the tokenizer's folding)
LowerChar(c) == IF c = "A" THEN "a" ELSE c

to_lowercase(s) == [i \in 1..Len(s) |-> LowerChar(s[i])]

\* Code points, for BINARY collation.
CodePoint(c) ==
    CASE c = " " -> 32 [] c = "!" -> 33 [] c = "%" -> 37 [] c = "*" -> 42
      [] c = "-" -> 45
      [] c = "0" -> 48 [] c = "1" -> 49 [] c = "2" -> 50 [] c = "3" -> 51
      [] c = "4" -> 52 [] c = "5" -> 53 [] c = "6" -> 54 [] c = "7" -> 55
      [] c = "8" -> 56 [] c = "9" -> 57
      [] c = "A" -> 65 [] c = "a" -> 97 [] c = "b" -> 98

RECURSIVE TextLess(_, _)
\* a < b in BINARY collation (memcmp, the shorter text first on a tie)
TextLess(a, b) ==
    IF b = <<>> THEN FALSE
    ELSE IF a = <<>> THEN TRUE
    ELSE IF CodePoint(a[1]) # CodePoint(b[1]) THEN CodePoint(a[1]) < CodePoint(b[1])
    ELSE TextLess(Tail(a), Tail(b))

\* s with every character of drop removed (Iterator::filter, SQL REPLACE(s, c, ''))
RECURSIVE Remove(_, _)
Remove(s, drop) ==
    IF s = <<>> THEN <<>>
    ELSE IF s[1] \in drop THEN Remove(Tail(s), drop)
    ELSE <<s[1]>> \o Remove(Tail(s), drop)

\* The maximal runs of characters of s that are not in seps, in order.
RECURSIVE SplitOn(_, _, _)
SplitOn(s, seps, cur) ==
    IF s = <<>> THEN (IF cur = <<>> THEN <<>> ELSE <<cur>>)
    ELSE IF s[1] \in seps
         THEN (IF cur = <<>> THEN <<>> ELSE <<cur>>) \o SplitOn(Tail(s), seps, <<>>)
         ELSE SplitOn(Tail(s), seps, Append(cur, s[1]))

\* parts joined with sep between consecutive parts ([String]::join)
RECURSIVE Join(_, _)
Join(parts, sep) ==
    IF parts = <<>> THEN <<>>
    ELSE IF Len(parts) = 1 THEN parts[1]
    ELSE parts[1] \o sep \o Join(Tail(parts), sep)

IsPrefix(p, s) == Len(p) <= Len(s) /\ SubSeq(s, 1, Len(p)) = p

\* needle occurs in hay as a contiguous run
Contains(hay, needle) ==
    \E i \in 0..(Len(hay) - Len(needle)) : SubSeq(hay, i + 1, i + Len(needle)) = needle

\* i64::to_string / CAST(n AS TEXT) of a non-negative integer
RECURSIVE IntToText(_)
IntToText(n) ==
    LET d == <<"0", "1", "2", "3", "4", "5", "6", "7", "8", "9">>[(n % 10) + 1]
    IN  IF n < 10 THEN <<d>> ELSE IntToText(n \div 10) \o <<d>>

\* i64::to_string
i64_to_string(n) == IF n < 0 THEN <<"-">> \o IntToText(-n) ELSE IntToText(n)

----------------------------------------------------------------------------
(* The bundled snapshot and the database. *)

\* Rows of the three primary tables of the bundled snapshot (EMBED_SEED_DB).
\* tags.id and categories.id are INTEGER, genres.id is TEXT.
SeedPrimary ==
    [k \in Kinds |->
        CASE k = "Tags" ->
                {[id |-> 1, name |-> <<"a", "-", "b">>],
                 [id |-> 2, name |-> <<"a", "b">>],
                 [id |-> 3, name |-> <<"b", " ", "A">>]}
          [] k = "Genres" ->
                {[id |-> <<"1">>, name |-> <<"A", " ", "b">>],
                 [id |-> <<"2">>, name |-> <<"b">>]}
          [] k = "Categories" ->
                {[id |-> 1, name |-> <<"b", "!", "a">>],
                 [id |-> 2, name |-> <<"b", "-", "a">>]}]

\* CAST(id AS TEXT): an INTEGER id rendered in decimal, a TEXT id as it is.
IdAsText(k, id) == IF k = "Genres" THEN id ELSE IntToText(id)

\* The mirror row the snapshot builder writes beside a primary row.
MirrorRow(k, r) == [id |-> IdAsText(k, r.id), name |-> r.name]

\* Rows of the snapshot's three full-text tables, in rowid order: the builder
\* inserts each primary row and its mirror together.
SeedFts ==
    [k \in Kinds |->
        CASE k = "Tags" ->
                <<[id |-> <<"1">>, name |-> <<"a", "-", "b">>],
                  [id |-> <<"2">>, name |-> <<"a", "b">>],
                  [id |-> <<"3">>, name |-> <<"b", " ", "A">>]>>
          [] k = "Genres" ->
                <<[id |-> <<"1">>, name |-> <<"A", " ", "b">>],
                  [id |-> <<"2">>, name |-> <<"b">>]>>
          [] k = "Categories" ->
                <<[id |-> <<"1">>, name |-> <<"b", "!", "a">>],
                  [id |-> <<"2">>, name |-> <<"b", "-", "a">>]>>]

\* A database whose tables exist and are empty (what init_schema makes of an
\* empty file).
EmptyDb ==
    [prim |-> [k \in Kinds |-> {}], fts |-> [k \in Kinds |-> <<>>], app_cache |-> {}]

\* The bundled snapshot as a database: app_cache exists and is empty.
SnapshotDb == [prim |-> SeedPrimary, fts |-> SeedFts, app_cache |-> {}]

\* The six tables of the re-seed, without app_cache.
SixTables(d) == [prim |-> d.prim, fts |-> d.fts]

----------------------------------------------------------------------------
(* seed_from_embedded_db: the batch and its execution. *)

\* The statements of the batch, in order.
SeedBatch ==
    <<[op |-> "ATTACH", kind |-> "none"],
      [op |-> "DELETE", kind |-> "Tags"],
      [op |-> "DELETE", kind |-> "Genres"],
      [op |-> "DELETE", kind |-> "Categories"],
      [op |-> "DELETE_FTS", kind |-> "Tags"],
      [op |-> "DELETE_FTS", kind |-> "Genres"],
      [op |-> "DELETE_FTS", kind |-> "Categories"],
      [op |-> "INSERT", kind |-> "Tags"],
      [op |-> "INSERT", kind |-> "Genres"],
      [op |-> "INSERT", kind |-> "Categories"],
      [op |-> "INSERT_FTS", kind |-> "Tags"],
      [op |-> "INSERT_FTS", kind |-> "Genres"],
      [op |-> "INSERT_FTS", kind |-> "Categories"],
      [op |-> "DETACH", kind |-> "none"]>>

\* One statement of the batch on database d.  The connection is in autocommit
\* mode (the batch opens no transaction), so a statement that succeeds is
\* committed; a statement that fails changes nothing.  INSERT ... SELECT into a
\* primary table fails on a primary-key conflict.
ExecStmt(d, st) ==
    CASE st.op = "DELETE" ->
            [ok |-> TRUE, db |-> [d EXCEPT !.prim[st.kind] = {}]]
      [] st.op = "DELETE_FTS" ->
            [ok |-> TRUE, db |-> [d EXCEPT !.fts[st.kind] = <<>>]]
      [] st.op = "INSERT" ->
            IF \E r \in d.prim[st.kind], n \in SeedPrimary[st.kind] : r.id = n.id
            THEN [ok |-> FALSE, db |-> d]
            ELSE [ok |-> TRUE,
                  db |-> [d EXCEPT !.prim[st.kind] = @ \cup SeedPrimary[st.kind]]]
      [] st.op = "INSERT_FTS" ->
            [ok |-> TRUE, db |-> [d EXCEPT !.fts[st.kind] = @ \o SeedFts[st.kind]]]
      [] OTHER -> [ok |-> TRUE, db |-> d]

\* Connection::execute_batch from statement k on: the statements run one by
\* one and the first that fails ends the batch.  failAt is the statement the
\* storage engine fails (I/O error, disk full, busy), 0 for none.
RECURSIVE ExecBatch(_, _, _)
ExecBatch(d, k, failAt) ==
    IF k > Len(SeedBatch) THEN [db |-> d, failed |-> 0]
    ELSE IF k = failAt THEN [db |-> d, failed |-> k]
    ELSE LET r == ExecStmt(d, SeedBatch[k])
         IN  IF r.ok THEN ExecBatch(r.db, k + 1, failAt)
             ELSE [db |-> d, failed |-> k]

\* A conversion that files storage errors under Internal.
FromRusqlite_Internal == "Internal"

\* impl From<rusqlite::Error> for AppError
FromRusqlite == "Database"

\* map_err(|e| AppError::Internal(e.to_string())) on a std::fs error
FromIoError == "Internal"

\* What can go wrong in one run, and where: at most one fault per operation,
\* since every fallible call is followed by `?`.  A fault whose site the run
\* never comes to does not happen.
Faults ==
    {[at |-> s, k |-> 0] :
        s \in {"none", "home_dir", "create_dir_all", "fs_write", "conn_open",
               "init_schema", "count", "seed_fs_write"}}
    \cup {[at |-> "stmt", k |-> k] : k \in 1..Len(SeedBatch)}

\* seed_from_embedded_db on database d under fault f.
seed_from_embedded_db(d, f) ==
    IF f.at = "seed_fs_write"
    THEN [db |-> d, result |-> "Err", err |-> FromIoError, site |-> "seed_fs_write",
          seed |-> "not_run", failed |-> 0]
    ELSE LET b == ExecBatch(d, 1, IF f.at = "stmt" THEN f.k ELSE 0)
         IN  IF b.failed = 0
             THEN [db |-> b.db, result |-> "Ok", err |-> "none", site |-> "none",
                   seed |-> "done", failed |-> 0]
             ELSE [db |-> b.db, result |-> "Err", err |-> FromRusqlite,
                   site |-> "stmt", seed |-> "failed", failed |-> b.failed]

\* SELECT COUNT(*) FROM tags
CountTags(d) == Cardinality(d.prim["Tags"])

\* LocalStore::ensure_seeded on database d under fault f.
ensure_seeded(d, f) ==
    IF f.at = "count"
    THEN [db |-> d, result |-> "Err", err |-> FromRusqlite, site |-> "count",
          seed |-> "not_run", failed |-> 0]
    ELSE IF CountTags(d) = 0
         THEN seed_from_embedded_db(d, f)
         ELSE [db |-> d, result |-> "Ok", err |-> "none", site |-> "none",
               seed |-> "skipped", failed |-> 0]

----------------------------------------------------------------------------
(* Paging and ordering as SQLite does them. *)

\* The values of usize.
Usize == 0..(2^WordBits - 1)

\* `v as i64` for a usize v: the same bits read as a signed integer.
AsI64(v) == IF v >= 2^(WordBits - 1) THEN v - 2^WordBits ELSE v

\* rows LIMIT lim OFFSET off, for rows already in order.  A negative OFFSET is
\* the same as zero and a negative LIMIT means no upper bound.
SqlLimitOffset(rows, lim, off) ==
    LET o     == IF off < 0 THEN 0 ELSE off
        first == IF o > Len(rows) THEN Len(rows) + 1 ELSE o + 1
        avail == Len(rows) - first + 1
        n     == IF lim < 0 \/ lim > avail THEN avail ELSE lim
    IN  SubSeq(rows, first, first + n - 1)

\* The orders in which ORDER BY may return the sequence rows, where less
\* holds the pairs <<i, j>> of positions with rows[i] sorting before rows[j]:
\* every arrangement in which no row precedes one that sorts before it (rows
\* that tie come in any order).
OrderBy(rows, less) ==
    LET n == Len(rows)
        perms == {p \in [1..n -> 1..n] : \A i, j \in 1..n : i # j => p[i] # p[j]}
    IN  {[i \in 1..n |-> rows[p[i]]] :
            p \in {q \in perms : \A i, j \in 1..n : i < j => <<q[j], q[i]>> \notin less}}

\* The rows of a set, as a sequence in some order (a table scan).
RECURSIVE SetToSeq(_)
SetToSeq(S) ==
    IF S = {} THEN <<>>
    ELSE LET x == CHOOSE y \in S : TRUE IN <<x>> \o SetToSeq(S \ {x})

\* ORDER BY name ASC
OrderByName(rows) ==
    OrderBy(rows, {p \in (1..Len(rows)) \X (1..Len(rows)) :
                     TextLess(rows[p[1]].name, rows[p[2]].name)})

----------------------------------------------------------------------------
(* list_dict. *)

\* SELECT CAST(id AS TEXT) AS id, name FROM <table>: the rows as DictItems.
DictItems(d, kind) ==
    SetToSeq({[id |-> IdAsText(kind, r.id), name |-> r.name] : r \in d.prim[kind]})

\* SELECT COUNT(*) FROM <table>
CountRows(d, kind) == Cardinality(d.prim[kind])

\* The results list_dict may return: ORDER BY name ASC LIMIT ? OFFSET ? with
\* limit and offset bound as i64, and the count of the table.
list_dict(d, kind, limit, offset) ==
    {[items |-> SqlLimitOffset(sorted, AsI64(limit), AsI64(offset)),
      total |-> CountRows(d, kind)] :
        sorted \in OrderByName(DictItems(d, kind))}

----------------------------------------------------------------------------
(* The full-text index: tokenizer, MATCH and bm25. *)

\* The unicode61 tokenizer on a name: the maximal runs of alphanumeric
\* characters, case-folded.
Tokenize(text) ==
    LET runs == SplitOn(text, AllChars \ AlnumChars, <<>>)
    IN  [i \in 1..Len(runs) |-> to_lowercase(runs[i])]

AndKeyword == <<"A", "N", "D">>

\* The prefix terms of a MATCH expression of the form t1* AND t2* ..., each
\* folded as the tokenizer folds it.
RECURSIVE MatchTerms(_)
MatchTerms(words) ==
    IF words = <<>> THEN <<>>
    ELSE IF words[1] = AndKeyword THEN MatchTerms(Tail(words))
    ELSE <<to_lowercase(Remove(words[1], {"*"}))>> \o MatchTerms(Tail(words))

\* The number of tokens of name that begin with term.
RECURSIVE PrefixHits(_, _)
PrefixHits(tokens, term) ==
    IF tokens = <<>> THEN 0
    ELSE (IF IsPrefix(term, tokens[1]) THEN 1 ELSE 0) + PrefixHits(Tail(tokens), term)

\* name MATCH terms: every term is the prefix of some token of the name.
FtsMatches(name, terms) ==
    \A i \in 1..Len(terms) : PrefixHits(Tokenize(name), terms[i]) > 0

\* The rows of an index that match, in rowid order.
RECURSIVE FtsSelect(_, _)
FtsSelect(rows, terms) ==
    IF rows = <<>> THEN <<>>
    ELSE (IF FtsMatches(rows[1].name, terms) THEN <<rows[1]>> ELSE <<>>)
         \o FtsSelect(Tail(rows), terms)

\* The number of tokens in all of the index's names.
RECURSIVE TotalTokens(_)
TotalTokens(rows) ==
    IF rows = <<>> THEN 0 ELSE Len(Tokenize(rows[1].name)) + TotalTokens(Tail(rows))

\* bm25's inverse document frequency of a term that n of N rows contain; the
\* engine floors a non-positive value to a tiny positive one.  (An integer
\* stand-in for log((N - n + 0.5) / (n + 0.5)): positive for N > 2n, the floor
\* otherwise.)
Idf(N, n) == IF N > 2 * n THEN 10 * (N - 2 * n) ELSE 1

\* bm25(<fts>) of a matching row, scaled to an integer: minus the sum over the
\* terms of idf * tf * (k1 + 1) / (tf + k1 * (1 - b + b * D / avgdl)) with
\* k1 = 1.2 and b = 0.75, and never above -1: the engine's score of a matching
\* row is below zero.
RECURSIVE Bm25Sum(_, _, _)
Bm25Sum(rows, name, terms) ==
    IF terms = <<>> THEN 0
    ELSE LET N  == Len(rows)
             T  == TotalTokens(rows)
             D  == Len(Tokenize(name))
             tf == PrefixHits(Tokenize(name), terms[1])
             n  == Len(FtsSelect(rows, <<terms[1]>>))
         IN  (Idf(N, n) * 100 * 22 * tf * T) \div (10 * tf * T + 3 * T + 9 * D * N)
             + Bm25Sum(rows, name, Tail(terms))

bm25(rows, name, terms) ==
    LET sum == Bm25Sum(rows, name, terms) IN IF sum < 1 THEN -1 ELSE -sum

\* ORDER BY rank
OrderByRank(rows) ==
    OrderBy(rows, {p \in (1..Len(rows)) \X (1..Len(rows)) :
                     rows[p[1]].rank < rows[p[2]].rank})

----------------------------------------------------------------------------
(* find_dict. *)

\* The rank every row of the substring fallback carries.
FallbackRank == 1000

\* clean + "*" for every non-empty clean = term.replace('"', "")
RECURSIVE StarTerms(_)
StarTerms(parts) ==
    IF parts = <<>> THEN <<>>
    ELSE LET clean == Remove(parts[1], {"\""})
         IN  (IF clean = <<>> THEN <<>> ELSE <<clean \o <<"*">>>>)
             \o StarTerms(Tail(parts))

\* to_fts_query: every non-alphanumeric character becomes a space, the text
\* is split on whitespace, each term gets a "*" and the terms are joined with
\* " AND ".
to_fts_query(input) ==
    LET normalized ==
            [i \in 1..Len(input) |-> IF is_alphanumeric(input[i]) THEN input[i] ELSE " "]
    IN  Join(StarTerms(SplitOn(normalized, {" "}, <<>>)), <<" ">> \o AndKeyword \o <<" ">>)

\* The engine's parse of a MATCH expression: an empty one is a syntax error.
FtsSyntaxOk(q) == q # <<>>

\* A full-text step without its guard.
FtsStepRuns_Unguarded(q) == TRUE

\* The full-text step's guard: !q.is_empty()
FtsStepRuns(q) == q # <<>>

\* A fallback that runs whatever the full-text step yielded.
FallbackRuns_Always(out) == TRUE

\* The fallback's guard: out.is_empty()
FallbackRuns(out) == out = <<>>

\* SELECT id, name, bm25(<fts>) AS rank FROM <fts> WHERE <fts> MATCH q: the
\* matching rows with their ranks, in rowid order.
FtsRanked(d, kind, q) ==
    LET terms == MatchTerms(SplitOn(q, {" "}, <<>>))
        hits  == FtsSelect(d.fts[kind], terms)
    IN  [i \in 1..Len(hits) |->
            [id |-> hits[i].id, name |-> hits[i].name,
             rank |-> bm25(d.fts[kind], hits[i].name, terms)]]

\* SELECT COUNT(*) FROM <fts> WHERE <fts> MATCH q
FtsCount(d, kind, q) == Len(FtsRanked(d, kind, q))

\* The fallback's query text: lower-cased, alphanumerics only.
normalized_query(query) == Remove(to_lowercase(query), AllChars \ AlnumChars)

\* text LIKE pattern for a pattern of the form %inner% whose inner part holds
\* no wildcard: inner occurs in text, ASCII case ignored.
SqlLike(text, pattern) ==
    Contains(to_lowercase(text), to_lowercase(SubSeq(pattern, 2, Len(pattern) - 1)))

\* REPLACE(REPLACE(LOWER(name), '-', ''), ' ', '')
StrippedName(name) == Remove(Remove(to_lowercase(name), {"-"}), {" "})

\* The rows of the primary table the fallback's WHERE clause keeps, as
\* DictFindItems with the fixed rank.
FallbackRows(d, kind, query) ==
    LET pattern == <<"%">> \o normalized_query(query) \o <<"%">>
    IN  SetToSeq({[id |-> IdAsText(kind, r.id), name |-> r.name, rank |-> FallbackRank] :
                    r \in {x \in d.prim[kind] : SqlLike(StrippedName(x.name), pattern)}})

\* The results find_dict may return, with what it did on the way: ftsRan and
\* ftsRows are the full-text step and the rows it yielded, fallbackRan the
\* substring step.
find_dict(d, kind, query, limit, offset) ==
    LET q      == to_fts_query(query)
        ftsRan == FtsStepRuns(q)
    IN  IF ftsRan /\ ~FtsSyntaxOk(q)
        THEN {[result |-> "Err", err |-> FromRusqlite]}
        ELSE
        {LET out1   == IF ftsRan
                       THEN SqlLimitOffset(byRank, AsI64(limit), AsI64(offset))
                       ELSE <<>>
             total1 == IF ftsRan THEN FtsCount(d, kind, to_fts_query(query)) ELSE 0
             fb     == FallbackRuns(out1)
         IN  [result |-> "Ok",
              items |-> IF fb
                        THEN out1 \o SqlLimitOffset(byName, AsI64(limit), AsI64(offset))
                        ELSE out1,
              total |-> IF fb THEN Len(byName) ELSE total1,
              ftsRan |-> ftsRan, ftsRows |-> out1, fallbackRan |-> fb] :
            byRank \in OrderByRank(FtsRanked(d, kind, q)),
            byName \in OrderByName(FallbackRows(d, kind, query))}

----------------------------------------------------------------------------
(* The detail cache: get_cached_app and put_cached_app. *)

NoPayload == [some |-> FALSE, payload |-> ""]

\* The query with a strict comparison.
CacheHits_Strict(d, appid, min_fetched_at) ==
    {r \in d.app_cache : r.appid = appid /\ r.fetched_at > min_fetched_at}

\* SELECT payload_json FROM app_cache WHERE appid = ? AND fetched_at >= ?
CacheHits(d, appid, min_fetched_at) ==
    {r \in d.app_cache : r.appid = appid /\ r.fetched_at >= min_fetched_at}

\* What get_cached_app may return: the payload of the first row of the
\* query, or None when it has no row.
get_cached_app(d, appid, min_fetched_at) ==
    IF CacheHits(d, appid, min_fetched_at) = {}
    THEN {NoPayload}
    ELSE {[some |-> TRUE, payload |-> r.payload_json] :
            r \in CacheHits(d, appid, min_fetched_at)}

\* An upsert that keeps the stored row when it is the newer one.
put_cached_app_KeepNewer(d, appid, payload_json, fetched_at) ==
    IF \E r \in d.app_cache : r.appid = appid
    THEN {IF r.appid = appid /\ r.fetched_at < fetched_at
          THEN [r EXCEPT !.payload_json = payload_json, !.fetched_at = fetched_at]
          ELSE r : r \in d.app_cache}
    ELSE d.app_cache \cup
         {[appid |-> appid, payload_json |-> payload_json, fetched_at |-> fetched_at]}

\* INSERT INTO app_cache ... ON CONFLICT(appid) DO UPDATE SET payload_json =
\* excluded.payload_json, fetched_at = excluded.fetched_at: the table after it.
put_cached_app(d, appid, payload_json, fetched_at) ==
    IF \E r \in d.app_cache : r.appid = appid
    THEN {IF r.appid = appid
          THEN [r EXCEPT !.payload_json = payload_json, !.fetched_at = fetched_at]
          ELSE r : r \in d.app_cache}
    ELSE d.app_cache \cup
         {[appid |-> appid, payload_json |-> payload_json, fetched_at |-> fetched_at]}

----------------------------------------------------------------------------
(* serde_json values and normalize_appdetails (src/src/steam.rs). *)

\* i64.
MinI64 == -(2^(WordBits - 1))
MaxI64 == 2^(WordBits - 1) - 1
I64 == MinI64..MaxI64

\* Option<T>.
None == [some |-> FALSE]
Some(x) == [some |-> TRUE, v |-> x]

\* serde_json::Value, by kind: an object is a function from member names to
\* values, an array a sequence of values.
JNull == [t |-> "null"]
JBool(b) == [t |-> "bool", bool |-> b]
JInt(i) == [t |-> "int", int |-> i]
JStr(s) == [t |-> "str", str |-> s]
JArr(items) == [t |-> "arr", arr |-> items]
JObj(members) == [t |-> "obj", obj |-> members]

\* The object without members.
EmptyObj == JObj([k \in {} |-> JNull])

\* A response text: one that serde_json::from_str rejects, or the text of a
\* value.
NotJson == [json |-> FALSE]
JsonText(value) == [json |-> TRUE, value |-> value]

\* serde_json::from_str::<Value>
from_str(text) == IF text.json THEN Some(text.value) ELSE None

\* Value::get(&str): a member of an object, None on anything else.
Get(value, key) ==
    IF value.t = "obj"
    THEN IF key \in DOMAIN value.obj THEN Some(value.obj[key]) ELSE None
    ELSE None

\* Option<&Value>::and_then(|v| v.get(key))
AndThenGet(opt, key) == IF opt.some THEN Get(opt.v, key) ELSE None

\* Option<&Value>::and_then(|v| v.as_bool()), as_str(), as_i64(): a number
\* beyond i64 is no i64.
as_bool(opt) == IF opt.some THEN (IF opt.v.t = "bool" THEN Some(opt.v.bool) ELSE None) ELSE None
as_str(opt) == IF opt.some THEN (IF opt.v.t = "str" THEN Some(opt.v.str) ELSE None) ELSE None
as_i64(opt) ==
    IF opt.some
    THEN IF opt.v.t = "int"
         THEN (IF opt.v.int \in I64 THEN Some(opt.v.int) ELSE None)
         ELSE None
    ELSE None

\* Option::unwrap_or
UnwrapOr(opt, default) == IF opt.some THEN opt.v ELSE default

\* parse_id_description_list: the elements with an integer id and a string
\* description, in order; anything that is no array gives the empty list.
RECURSIVE FilterIdDescription(_)
FilterIdDescription(items) ==
    IF items = <<>> THEN <<>>
    ELSE LET id   == as_i64(Get(Head(items), "id"))
             name == as_str(Get(Head(items), "description"))
         IN  (IF id.some /\ name.some
              THEN <<[id |-> i64_to_string(id.v), name |-> name.v]>>
              ELSE <<>>) \o FilterIdDescription(Tail(items))

\* A list that is given up as a whole when one of its elements is dropped.
parse_id_description_list_AllOrNothing(value) ==
    IF value.some
    THEN IF value.v.t = "arr"
         THEN (IF Len(FilterIdDescription(value.v.arr)) = Len(value.v.arr)
               THEN FilterIdDescription(value.v.arr) ELSE <<>>)
         ELSE <<>>
    ELSE <<>>

parse_id_description_list(value) ==
    IF value.some
    THEN IF value.v.t = "arr" THEN FilterIdDescription(value.v.arr) ELSE <<>>
    ELSE <<>>

\* The precedence with the success flag looked at only after the data object.
NormalizeFailure_DataFirst(obj) ==
    IF ~Get(obj, "data").some THEN "UpstreamSchema"
    ELSE IF ~UnwrapOr(as_bool(Get(obj, "success")), FALSE) THEN "NotFound"
    ELSE "none"

\* What normalize_appdetails returns early with for the object under the id
\* key: NotFound unless success is the boolean true, then UpstreamSchema when
\* there is no data member.
NormalizeFailure(obj) ==
    IF ~UnwrapOr(as_bool(Get(obj, "success")), FALSE) THEN "NotFound"
    ELSE IF ~Get(obj, "data").some THEN "UpstreamSchema"
    ELSE "none"

\* The name put in place of one that is absent or no string.
UnknownName == "Unknown"

\* The AppDetailsOut built from the data value.
AppDetailsOut(appid, data) ==
    [appid |-> appid,
     name |-> UnwrapOr(as_str(Get(data, "name")), UnknownName),
     short_description |-> as_str(Get(data, "short_description")),
     categories |-> parse_id_description_list(Get(data, "categories")),
     genres |-> parse_id_description_list(Get(data, "genres")),
     supported_languages |-> as_str(Get(data, "supported_languages")),
     platforms |-> UnwrapOr(Get(data, "platforms"), JNull),
     release_date |-> as_str(AndThenGet(Get(data, "release_date"), "date")),
     price_overview |-> Get(data, "price_overview")]

JsonErr(kind) == [result |-> "Err", err |-> kind]

normalize_appdetails(appid, raw_json) ==
    LET root == from_str(raw_json)
    IN  IF ~root.some THEN JsonErr("UpstreamSchema")
        ELSE LET obj == Get(root.v, i64_to_string(appid))
             IN  IF ~obj.some THEN JsonErr("UpstreamSchema")
                 ELSE IF NormalizeFailure(obj.v) # "none"
                      THEN JsonErr(NormalizeFailure(obj.v))
                 ELSE [result |-> "Ok",
                       app |-> AppDetailsOut(appid, Get(obj.v, "data").v)]

----------------------------------------------------------------------------
(* The detail responses normalize_appdetails is given. *)

\* The object whose members are the fields that are Some.
MakeObj(fields) ==
    JObj([k \in {n \in DOMAIN fields : fields[n].some} |-> fields[k].v])

\* Elements of a categories / genres array: two with an integer id and a string
\* description, and ones lacking either, with a textual id, with a
\* description that is no string, and one that is no object.
ListElems ==
    {MakeObj([id |-> Some(JInt(1)), description |-> Some(JStr("Action"))]),
     MakeObj([id |-> Some(JInt(-3)), description |-> Some(JStr("Co-op"))]),
     MakeObj([id |-> None, description |-> Some(JStr("Action"))]),
     MakeObj([id |-> Some(JInt(1)), description |-> None]),
     MakeObj([id |-> Some(JStr("1")), description |-> Some(JStr("Action"))]),
     MakeObj([id |-> Some(JInt(2)), description |-> Some(JInt(7))]),
     JInt(5)}

\* A categories member: absent, no array, or an array of up to MaxListLen
\* elements.
CategoriesMembers ==
    {None, Some(JStr("Action"))}
        \cup {Some(JArr(l)) : l \in UNION {[1..n -> ListElems] : n \in 0..MaxListLen}}

GenresMembers ==
    {None,
     Some(JArr(<<MakeObj([id |-> Some(JInt(2)), description |-> Some(JStr("Indie"))]),
                 MakeObj([id |-> None, description |-> Some(JStr("Action"))])>>))}

\* The pass-through members together: all absent, or all present with
\* release_date once an object with a date and once a bare string.
PassThroughMembers ==
    {[supported_languages |-> None, platforms |-> None, release_date |-> None,
      price_overview |-> None],
     [supported_languages |-> Some(JStr("English")),
      platforms |-> Some(MakeObj([windows |-> Some(JBool(TRUE))])),
      release_date |-> Some(MakeObj([date |-> Some(JStr("1 Nov, 2000"))])),
      price_overview |-> Some(MakeObj([final |-> Some(JInt(999))]))],
     [supported_languages |-> Some(JInt(1)),
      platforms |-> Some(JNull),
      release_date |-> Some(JStr("1 Nov, 2000")),
      price_overview |-> Some(JNull)]}

\* The objects a data member can be.
DataObjects ==
    {MakeObj([name |-> name, short_description |-> short,
              categories |-> categories, genres |-> genres] @@ pass) :
        name \in {None, Some(JStr("Game")), Some(JInt(7))},
        short \in {None, Some(JStr("A game"))},
        categories \in CategoriesMembers,
        genres \in GenresMembers,
        pass \in PassThroughMembers}

\* The data member: absent, a value that is no object, or an object.
DataMembers ==
    {None, Some(JNull), Some(JArr(<<>>)),
     Some(MakeObj([name |-> Some(JStr("Game"))]))}

\* The success member: absent, a boolean, or something that is no boolean.
SuccessMembers ==
    {None, Some(JBool(TRUE)), Some(JBool(FALSE)), Some(JInt(1)), Some(JStr("true"))}

\* The response with these members under the key of app 10.
AppDetailsText(success, data) ==
    JsonText(JObj([k \in {i64_to_string(10)} |->
                     MakeObj([success |-> success, data |-> data])]))

\* The response texts: no JSON, JSON that is no object, an object without the
\* key of app 10, and objects with it: every success member with a few data
\* members, and every data object under success = true.
AppDetailsTexts ==
    {NotJson, JsonText(JArr(<<>>)), JsonText(EmptyObj),
     JsonText(JObj([k \in {i64_to_string(10)} |-> JInt(1)]))}
        \cup {AppDetailsText(success, data) :
                success \in SuccessMembers, data \in DataMembers}
        \cup {AppDetailsText(Some(JBool(TRUE)), Some(data)) : data \in DataObjects}

----------------------------------------------------------------------------
(* parse_tag_facets (src/src/steam.rs): the facet literal of the page. *)

DigitValue(c) ==
    CASE c = "0" -> 0 [] c = "1" -> 1 [] c = "2" -> 2 [] c = "3" -> 3
      [] c = "4" -> 4 [] c = "5" -> 5 [] c = "6" -> 6 [] c = "7" -> 7
      [] c = "8" -> 8 [] c = "9" -> 9

\* The digit loop of str::parse::<i64>: acc * 10 +/- digit with checked
\* arithmetic; a character that is no digit, or leaving i64, is an error.
RECURSIVE ParseDigits(_, _, _)
ParseDigits(digits, acc, negative) ==
    IF digits = <<>> THEN Some(acc)
    ELSE IF Head(digits) \notin DigitChars THEN None
    ELSE LET next == IF negative THEN acc * 10 - DigitValue(Head(digits))
                     ELSE acc * 10 + DigitValue(Head(digits))
         IN  IF next \in I64 THEN ParseDigits(Tail(digits), next, negative) ELSE None

\* str::parse::<i64>: an optional sign and at least one digit, nothing else.
parse_i64(text) ==
    IF text = <<>> THEN None
    ELSE IF Head(text) \in {"+", "-"}
         THEN IF Tail(text) = <<>> THEN None
              ELSE ParseDigits(Tail(text), 0, Head(text) = "-")
    ELSE ParseDigits(text, 0, FALSE)

\* The inline script as the regex and the JSON reader see it: the call name,
\* parentheses, brackets, commas, white space and JSON scalars.
TkName == [k |-> "PopulateTagFacetData"]
TkLPar == [k |-> "("]
TkRPar == [k |-> ")"]
TkLBr == [k |-> "["]
TkRBr == [k |-> "]"]
TkComma == [k |-> ","]
TkWs == [k |-> " "]
TkAtom(value) == [k |-> "scalar", value |-> value]

\* A string scalar with a closing parenthesis in it.
ParenText == <<"a", ")">>

\* The token has a ")" in it: what [^\)] does not match.
HasRPar(tk) == tk = TkRPar \/ tk = TkAtom(JStr(ParenText))

\* \s*: the first position from i on that holds no white space.
RECURSIVE SkipWs(_, _)
SkipWs(t, i) == IF i <= Len(t) /\ t[i] = TkWs THEN SkipWs(t, i + 1) ELSE i

\* t holds tk at position i.
At(t, i, tk) == i <= Len(t) /\ t[i] = tk

\* \[[^\)]*\] from s to e.
Bracketed(t, s, e) ==
    /\ At(t, s, TkLBr) /\ s < e /\ At(t, e, TkRBr)
    /\ \A i \in s..e : ~HasRPar(t[i])

\* The positions the first group starting at s can end at so that
\* \s*,\s*(\[[^\)]*\]) matches behind it.
Group1Ends(t, s) ==
    {e \in (s + 1)..Len(t) :
        /\ Bracketed(t, s, e)
        /\ At(t, SkipWs(t, e + 1), TkComma)
        /\ \E h \in 1..Len(t) :
              Bracketed(t, SkipWs(t, SkipWs(t, e + 1) + 1), h)}

\* The positions of the call name where the whole pattern matches.
MatchStarts(t) ==
    {p \in 1..Len(t) :
        /\ At(t, p, TkName) /\ At(t, p + 1, TkLPar)
        /\ Group1Ends(t, SkipWs(t, p + 2)) # {}}

SetMin(S) == CHOOSE x \in S : \A y \in S : x <= y
SetMax(S) == CHOOSE x \in S : \A y \in S : x >= y

\* A first group that stops at the first bracket it can.
FirstGroup_Lazy(t) ==
    IF MatchStarts(t) = {} THEN None
    ELSE LET s == SkipWs(t, SetMin(MatchStarts(t)) + 2)
         IN  Some(SubSeq(t, s, SetMin(Group1Ends(t, s))))

\* re.captures(html_text).get(1): the leftmost match, its first group as long
\* as the rest of the pattern allows (the quantifier is greedy).
FirstGroup(t) ==
    IF MatchStarts(t) = {} THEN None
    ELSE LET s == SkipWs(t, SetMin(MatchStarts(t)) + 2)
         IN  Some(SubSeq(t, s, SetMax(Group1Ends(t, s))))

\* serde_json's reader on tokens: a value starting at i, as [ok, value, next].
ParseFail == [ok |-> FALSE]
RECURSIVE ParseValue(_, _)
RECURSIVE ParseItems(_, _, _)
ParseValue(t, i) ==
    LET j == SkipWs(t, i)
    IN  IF j > Len(t) THEN ParseFail
        ELSE IF t[j].k = "scalar" THEN [ok |-> TRUE, value |-> t[j].value, next |-> j + 1]
        ELSE IF t[j] = TkLBr
             THEN IF At(t, SkipWs(t, j + 1), TkRBr)
                  THEN [ok |-> TRUE, value |-> JArr(<<>>), next |-> SkipWs(t, j + 1) + 1]
                  ELSE ParseItems(t, j + 1, <<>>)
        ELSE ParseFail

ParseItems(t, i, acc) ==
    LET v == ParseValue(t, i)
    IN  IF ~v.ok THEN ParseFail
        ELSE LET j == SkipWs(t, v.next)
             IN  IF At(t, j, TkComma) THEN ParseItems(t, j + 1, Append(acc, v.value))
                 ELSE IF At(t, j, TkRBr)
                      THEN [ok |-> TRUE, value |-> JArr(Append(acc, v.value)),
                            next |-> j + 1]
                 ELSE ParseFail

\* serde_json::from_str::<Vec<Vec<Value>>>: one value and nothing behind it,
\* an array whose elements are all arrays.
from_str_pairs(t) ==
    LET v == ParseValue(t, 1)
    IN  IF ~v.ok THEN None
        ELSE IF SkipWs(t, v.next) <= Len(t) THEN None
        ELSE IF v.value.t # "arr" THEN None
        ELSE IF \E i \in DOMAIN v.value.arr : v.value.arr[i].t # "arr" THEN None
        ELSE Some([i \in DOMAIN v.value.arr |-> v.value.arr[i].arr])

\* value_to_i64
value_to_i64(v) ==
    IF as_i64(Some(v)).some THEN as_i64(Some(v))
    ELSE IF as_str(Some(v)).some THEN parse_i64(as_str(Some(v)).v)
    ELSE None

\* The filter_map over the pairs.
RECURSIVE FilterPairs(_, _)
FilterPairs(pairs, selected_tags) ==
    IF pairs = <<>> THEN <<>>
    ELSE LET pair == Head(pairs)
             keep == IF Len(pair) # 2 THEN FALSE
                     ELSE value_to_i64(pair[1]).some /\ value_to_i64(pair[2]).some
         IN  (IF keep
              THEN <<[tagid |-> value_to_i64(pair[1]).v,
                      count |-> value_to_i64(pair[2]).v,
                      selected |-> value_to_i64(pair[1]).v \in selected_tags]>>
              ELSE <<>>) \o FilterPairs(Tail(pairs), selected_tags)

\* An error of the extraction: its kind and the message it carries.
SearchErr(kind, message) == [result |-> "Err", err |-> kind, message |-> message]

parse_tag_facets(script, selected_tags) ==
    IF ~FirstGroup(script).some
    THEN SearchErr("UpstreamSchema", "facets block not found in search HTML")
    ELSE IF ~from_str_pairs(FirstGroup(script).v).some
    THEN SearchErr("UpstreamSchema", "facet parse failed")
    ELSE [result |-> "Ok",
          facets |-> FilterPairs(from_str_pairs(FirstGroup(script).v).v, selected_tags)]

----------------------------------------------------------------------------
(* parse_search_html (src/src/steam.rs): the rows of the page. *)

\* str::trim
RECURSIVE TrimStart(_)
TrimStart(text) ==
    IF text = <<>> THEN <<>>
    ELSE IF Head(text) = " " THEN TrimStart(Tail(text)) ELSE text

RECURSIVE TrimEnd(_)
TrimEnd(text) ==
    IF text = <<>> THEN <<>>
    ELSE IF text[Len(text)] = " " THEN TrimEnd(SubSeq(text, 1, Len(text) - 1)) ELSE text

trim(text) == TrimEnd(TrimStart(text))

\* unwrap_or_else(|| "Unknown".to_string())
UnknownTitle == <<"U", "n", "k", "n", "o", "w", "n">>

\* An anchor of the parsed document: whether a.search_result_row selects it,
\* its data-ds-appid attribute, and the texts of the elements under it that
\* span.title and div.discount_final_price, div.search_price select, in
\* document order.
Anchor(row, appid, titles, prices) ==
    [row |-> row, appid |-> appid, titles |-> titles, prices |-> prices]

\* The name of a row: the trimmed text of the first title, if not empty.
RowName(anchor) ==
    IF anchor.titles = <<>> THEN UnknownTitle
    ELSE IF trim(Head(anchor.titles)) = <<>> THEN UnknownTitle
    ELSE trim(Head(anchor.titles))

\* The price of a row: the text of the first price element with its white
\* space collapsed, if not empty.
RowPrice(anchor) ==
    IF anchor.prices = <<>> THEN None
    ELSE LET text == Join(SplitOn(Head(anchor.prices), {" "}, <<>>), <<" ">>)
         IN  IF text = <<>> THEN None ELSE Some(text)

\* The loop over document.select(&row_sel).
RECURSIVE SearchItems(_)
SearchItems(anchors) ==
    IF anchors = <<>> THEN <<>>
    ELSE LET a == Head(anchors)
             keep == IF ~a.row THEN FALSE
                     ELSE IF ~a.appid.some THEN FALSE
                     ELSE parse_i64(a.appid.v).some
         IN  (IF keep
              THEN <<[appid |-> parse_i64(a.appid.v).v, name |-> RowName(a),
                      price |-> RowPrice(a)]>>
              ELSE <<>>) \o SearchItems(Tail(anchors))

\* The facets read whenever the block is there, requested or not.
SearchFacets_Eager(html, selected_tags, with_facets) ==
    IF with_facets \/ FirstGroup(html.script).some
    THEN parse_tag_facets(html.script, selected_tags)
    ELSE [result |-> "Ok", none |-> TRUE]

\* What parse_search_html makes of the facet block once it has rows.
SearchFacets(html, selected_tags, with_facets) ==
    IF with_facets
    THEN parse_tag_facets(html.script, selected_tags)
    ELSE [result |-> "Ok", none |-> TRUE]

\* An empty row list returned as a success.
parse_search_html_EmptyOk(html, selected_tags, with_facets) ==
    LET items  == SearchItems(html.anchors)
        facets == SearchFacets(html, selected_tags, with_facets)
    IN  IF facets.result = "Err" THEN facets
        ELSE [result |-> "Ok", items |-> items,
              facets |-> IF with_facets THEN Some(facets.facets) ELSE None]

\* parse_search_html on a page: its anchors and its inline script.
parse_search_html(html, selected_tags, with_facets) ==
    LET items  == SearchItems(html.anchors)
        facets == SearchFacets(html, selected_tags, with_facets)
    IN  IF items = <<>>
        THEN SearchErr("UpstreamSchema",
                       "no search_result_row entries found in store response")
        ELSE IF facets.result = "Err" THEN facets
        ELSE [result |-> "Ok", items |-> items,
              facets |-> IF with_facets THEN Some(facets.facets) ELSE None]

----------------------------------------------------------------------------
(* The pages parse_search_html is given. *)

\* The characters of a data-ds-appid attribute.
AttrChars == {"1", "4", "-", "+", " "}
AttrTexts == UNION {[1..n -> AttrChars] : n \in 0..MaxAttrLen}

\* The titles and prices under a row: none, blank ones, ones with white space
\* around and inside, and two of each.
RowContents ==
    {[titles |-> <<>>, prices |-> <<>>],
     [titles |-> <<<<" ">>>>, prices |-> <<<<" ", " ">>>>],
     [titles |-> <<<<" ", "a", " ", "b", " ">>>>,
      prices |-> <<<<" ", "1", " ", " ", "2", " ">>>>],
     [titles |-> <<<<>>, <<"a">>>>, prices |-> <<<<"1">>, <<"2">>>>]}

\* The anchors of a page: rows without id, with an id that parses and with
\* one that does not, and anchors that are no rows.
PageAnchors ==
    {Anchor(TRUE, appid, c.titles, c.prices) :
        appid \in {None, Some(<<"1">>), Some(<<"1", "4", "1">>)}, c \in RowContents}
      \cup {Anchor(FALSE, Some(<<"1">>), <<<<"a">>>>, <<>>),
            Anchor(FALSE, None, <<>>, <<>>)}

AnchorLists ==
    UNION {[1..n -> PageAnchors] : n \in 0..MaxRows}
      \cup {<<Anchor(TRUE, Some(appid), <<<<"a">>>>, <<>>)>> : appid \in AttrTexts}

\* A JSON value as the tokens of its text.
RECURSIVE Render(_)
RECURSIVE RenderItems(_)
Render(value) ==
    IF value.t = "arr" THEN <<TkLBr>> \o RenderItems(value.arr) \o <<TkRBr>>
    ELSE <<TkAtom(value)>>

RenderItems(items) ==
    IF items = <<>> THEN <<>>
    ELSE IF Len(items) = 1 THEN Render(items[1])
    ELSE Render(items[1]) \o <<TkComma>> \o RenderItems(Tail(items))

\* The script calling PopulateTagFacetData with args.
FacetCall(args) == <<TkName, TkLPar>> \o RenderItems(args) \o <<TkRPar>>

\* The elements of a first array: pairs of integers and of decimal texts,
\* pairs with a member that resolves to nothing, arrays that are no pairs, and
\* a value that is no array.
PairElems ==
    {JArr(<<JInt(1), JInt(2)>>),
     JArr(<<JStr(<<"2">>), JInt(3)>>),
     JArr(<<JInt(3), JStr(<<"-", "1">>)>>),
     JArr(<<JStr(<<"a">>), JInt(1)>>),
     JArr(<<JInt(2), JNull>>),
     JArr(<<JInt(1)>>),
     JArr(<<JInt(1), JInt(2), JInt(3)>>),
     JInt(1)}

FirstArrays == {JArr(l) : l \in UNION {[1..n -> PairElems] : n \in 0..MaxPairs}}

\* The second argument of the call: an empty array, a flat one, and arrays of
\* one and of two arrays.
SecondArrays ==
    {JArr(<<>>),
     JArr(<<JInt(1), JInt(2)>>),
     JArr(<<JArr(<<JInt(1), JInt(2)>>)>>),
     JArr(<<JArr(<<JInt(1), JInt(2)>>), JArr(<<JInt(2), JInt(1)>>)>>)}

\* The inline scripts: none, the call with two arrays, and calls with one
\* argument, with a first argument that is no array, with three arguments,
\* with a ")" inside the first array, with a first array that is no JSON,
\* with white space around every token, and a call the pattern does not match
\* followed by one it matches.
Scripts ==
    {<<>>}
      \cup {FacetCall(<<a, b>>) : a \in FirstArrays, b \in SecondArrays}
      \cup {FacetCall(<<JArr(<<JArr(<<JInt(1), JInt(2)>>)>>)>>),
            FacetCall(<<JInt(1), JArr(<<>>)>>),
            FacetCall(<<JArr(<<JArr(<<JInt(1), JInt(2)>>)>>), JArr(<<>>), JArr(<<>>)>>),
            FacetCall(<<JArr(<<JArr(<<JStr(ParenText), JInt(2)>>)>>), JArr(<<>>)>>),
            <<TkName, TkLPar, TkLBr, TkLBr, TkAtom(JInt(1)), TkComma, TkRBr, TkComma,
              TkLBr, TkRBr, TkRPar>>,
            <<TkName, TkLPar, TkWs, TkLBr, TkWs, TkLBr, TkAtom(JInt(1)), TkWs, TkComma,
              TkAtom(JInt(2)), TkRBr, TkWs, TkRBr, TkWs, TkComma, TkWs, TkWs, TkLBr,
              TkRBr, TkWs, TkRPar>>,
            FacetCall(<<JInt(1)>>)
              \o FacetCall(<<JArr(<<JArr(<<JInt(2), JInt(3)>>)>>), JArr(<<>>)>>)}

\* The caller's tag filter.
TagFilters == {{}, {2}}

\* The arguments of parse_search_html: every anchor list with a few scripts,
\* and every script with a page without rows and a page with one.
SearchInputs ==
    {[anchors |-> anchors, script |-> script, selected_tags |-> {1},
      with_facets |-> with_facets] :
        anchors \in AnchorLists,
        script \in {<<>>,
                    FacetCall(<<JArr(<<JArr(<<JInt(1), JInt(2)>>)>>), JArr(<<>>)>>),
                    FacetCall(<<JInt(1)>>)},
        with_facets \in BOOLEAN}
      \cup {[anchors |-> anchors, script |-> script, selected_tags |-> tags,
             with_facets |-> with_facets] :
                anchors \in {<<>>,
                             <<Anchor(TRUE, None, <<>>, <<>>),
                               Anchor(TRUE, Some(<<"-", "4">>), <<>>, <<<<"1">>>>)>>},
                script \in Scripts, tags \in TagFilters, with_facets \in BOOLEAN}

----------------------------------------------------------------------------
(* handle_app (src/src/main.rs): the detail lookup. *)

\* i64::saturating_sub
saturating_sub(a, b) ==
    IF a - b > MaxI64 THEN MaxI64 ELSE IF a - b < MinI64 THEN MinI64 ELSE a - b

\* The ttl taken as given.
ClampTtl_Raw(ttl_sec) == ttl_sec

\* args.ttl_sec.max(0)
ClampTtl(ttl_sec) == IF ttl_sec > 0 THEN ttl_sec ELSE 0

\* From<reqwest::Error> for AppError, on the status the error carries (0 for
\* none).
FromReqwest(status) ==
    IF status = 401 THEN "Unauthorized"
    ELSE IF status = 429 THEN "RateLimit"
    ELSE "Network"

\* fetch_appdetails_json: the body text of whatever response arrived, or the
\* error of send() or text(), which carries no status (there is no
\* error_for_status in the call).
FetchOk(text) == [ok |-> TRUE, text |-> text]
FetchFailed == [ok |-> FALSE, err |-> FromReqwest(0)]

\* The outcome of a lookup that failed after steps: the cache it leaves, the
\* min_fetched_at it used, whether the cache served it, and the error.
AppErr(steps, cache, min_ts, got, kind) ==
    [steps |-> steps, cache |-> cache, min_ts |-> min_ts, got |-> got,
     result |-> "Err", err |-> kind, cached |-> FALSE]

\* normalize_appdetails(appid, &raw_json)? and print_success(.., cached).
NormalizeAndPrint(steps, cache, min_ts, got, appid, raw_json, cached) ==
    LET out == normalize_appdetails(appid, raw_json)
        all == Append(steps, "normalize_appdetails")
    IN  IF out.result = "Err"
        THEN AppErr(all, cache, min_ts, got, out.err) @@ [raw |-> raw_json]
        ELSE [steps |-> all, cache |-> cache, min_ts |-> min_ts, got |-> got,
              result |-> "Ok", err |-> "none", cached |-> cached,
              raw |-> raw_json, app |-> out.app]

\* The order with the fetched text normalized before it is stored.
handle_app_miss_NormalizeFirst(d, appid, now, min_ts, fetch, putFault) ==
    IF ~fetch.ok
    THEN AppErr(<<"get_cached_app", "fetch_appdetails_json">>, d.app_cache, min_ts,
                FALSE, fetch.err)
    ELSE IF normalize_appdetails(appid, fetch.text).result = "Err"
    THEN AppErr(<<"get_cached_app", "fetch_appdetails_json", "normalize_appdetails">>,
                d.app_cache, min_ts, FALSE,
                normalize_appdetails(appid, fetch.text).err) @@ [raw |-> fetch.text]
    ELSE IF putFault = "storage"
    THEN AppErr(<<"get_cached_app", "fetch_appdetails_json", "put_cached_app">>,
                d.app_cache, min_ts, FALSE, FromRusqlite)
    ELSE NormalizeAndPrint(<<"get_cached_app", "fetch_appdetails_json", "put_cached_app">>,
                           put_cached_app(d, appid, fetch.text, now), min_ts, FALSE,
                           appid, fetch.text, FALSE)

\* The else branch of handle_app: fetch, store, then normalize.
handle_app_miss(d, appid, now, min_ts, fetch, putFault) ==
    IF ~fetch.ok
    THEN AppErr(<<"get_cached_app", "fetch_appdetails_json">>, d.app_cache, min_ts,
                FALSE, fetch.err)
    ELSE IF putFault = "storage"
    THEN AppErr(<<"get_cached_app", "fetch_appdetails_json", "put_cached_app">>,
                d.app_cache, min_ts, FALSE, FromRusqlite)
    ELSE NormalizeAndPrint(<<"get_cached_app", "fetch_appdetails_json", "put_cached_app">>,
                           put_cached_app(d, appid, fetch.text, now), min_ts, FALSE,
                           appid, fetch.text, FALSE)

\* A lookup that evicts the row it finds stale before it fetches.
handle_app_EvictStale(d, appid, ttl_sec, now, fetch, getFault, putFault) ==
    LET min_ts  == saturating_sub(now, ClampTtl(ttl_sec))
        evicted == [d EXCEPT !.app_cache = {r \in @ : r.appid # appid}]
    IN  IF getFault = "storage"
        THEN {AppErr(<<"get_cached_app">>, d.app_cache, min_ts, FALSE, FromRusqlite)}
        ELSE {IF v.some
              THEN NormalizeAndPrint(<<"get_cached_app">>, d.app_cache, min_ts, TRUE,
                                     appid, v.payload, TRUE)
              ELSE handle_app_miss(evicted, appid, now, min_ts, fetch, putFault) :
                v \in get_cached_app(d, appid, min_ts)}

\* handle_app: the set of its outcomes on tables d (get_cached_app may see any
\* of the rows the query can return first).
handle_app(d, appid, ttl_sec, now, fetch, getFault, putFault) ==
    LET min_ts == saturating_sub(now, ClampTtl(ttl_sec))
    IN  IF getFault = "storage"
        THEN {AppErr(<<"get_cached_app">>, d.app_cache, min_ts, FALSE, FromRusqlite)}
        ELSE {IF v.some
              THEN NormalizeAndPrint(<<"get_cached_app">>, d.app_cache, min_ts, TRUE,
                                     appid, v.payload, TRUE)
              ELSE handle_app_miss(d, appid, now, min_ts, fetch, putFault) :
                v \in get_cached_app(d, appid, min_ts)}

----------------------------------------------------------------------------
(* LocalStore::open and the process around it. *)

\* What fs::write leaves behind when it fails: nothing (the create failed), a
\* zero-length file, or a truncated one that is no database.
PartialFiles == {"absent", "empty", "corrupt"}

\* The outcome of an open that failed at site, before ensure_seeded was
\* reached.
EarlyErr(fl, d, kind, site) ==
    [file |-> fl, db |-> d, result |-> "Err", err |-> kind, site |-> site,
     seed |-> "not_run", failed |-> 0, pre |-> d]

\* LocalStore::open on file state fl with tables d, under fault f; partial is
\* what a failing fs::write leaves.
open(fl, d, f, partial) ==
    IF f.at \in {"home_dir", "create_dir_all"} THEN EarlyErr(fl, d, FromIoError, f.at)
    ELSE IF fl = "absent" /\ f.at = "fs_write"
         THEN EarlyErr(partial, d, FromIoError, f.at)
    ELSE LET fl1 == IF fl = "absent" THEN "db" ELSE fl
             d1  == IF fl = "absent" THEN SnapshotDb ELSE d
         IN  IF f.at = "conn_open" THEN EarlyErr(fl1, d1, FromRusqlite, f.at)
             ELSE IF fl1 = "corrupt" \/ f.at = "init_schema"
                  THEN EarlyErr(fl1, d1, FromRusqlite, "init_schema")
             ELSE LET d2 == IF fl1 = "empty" THEN EmptyDb ELSE d1
                      e  == ensure_seeded(d2, f)
                  IN  [file |-> "db", db |-> e.db, result |-> e.result,
                       err |-> e.err, site |-> e.site, seed |-> e.seed,
                       failed |-> e.failed, pre |-> d2]

Init ==
    /\ file = "absent"
    /\ db = EmptyDb
    /\ store = "closed"
    /\ ret = [op |-> "init"]

\* run(): a process starts and opens the store; an error ends the process.
Open ==
    /\ store = "closed"
    /\ \E f \in Faults, partial \in PartialFiles :
        LET r == open(file, db, f, partial)
        IN  /\ file' = r.file
            /\ db' = r.db
            /\ store' = IF r.result = "Ok" THEN "open" ELSE "closed"
            /\ ret' = [op |-> "open", result |-> r.result, err |-> r.err,
                       site |-> r.site, seed |-> r.seed, failed |-> r.failed,
                       pre |-> r.pre]

\* handle_dict's own call of ensure_seeded on the open store; an error ends
\* the process.
EnsureSeeded ==
    /\ store = "open"
    /\ \E f \in {g \in Faults : g.at \in {"none", "count", "seed_fs_write", "stmt"}} :
        LET e == ensure_seeded(db, f)
        IN  /\ db' = e.db
            /\ store' = IF e.result = "Ok" THEN "seeded" ELSE "closed"
            /\ ret' = [op |-> "ensure_seeded", result |-> e.result, err |-> e.err,
                       site |-> e.site, seed |-> e.seed, failed |-> e.failed,
                       pre |-> db]
    /\ UNCHANGED file

\* The process ends: it runs one command (run() dispatches once).
Exit ==
    /\ store = "done"
    /\ store' = "closed"
    /\ ret' = [op |-> "exit"]
    /\ UNCHANGED <<file, db>>

\* A storage failure of a query (prepare, step or row read), or none.
StorageFaults == {"none", "storage"}

ListDict ==
    /\ store = "seeded"
    /\ store' = "done"
    /\ \E kind \in Kinds, limit \in Usize, offset \in Usize, fault \in StorageFaults :
        IF fault = "storage"
        THEN ret' = [op |-> "list_dict", kind |-> kind, limit |-> limit,
                     offset |-> offset, fault |-> fault, result |-> "Err",
                     err |-> FromRusqlite]
        ELSE \E r \in list_dict(db, kind, limit, offset) :
                ret' = [op |-> "list_dict", kind |-> kind, limit |-> limit,
                        offset |-> offset, fault |-> fault, result |-> "Ok",
                        items |-> r.items, total |-> r.total]
    /\ UNCHANGED <<file, db>>

\* The query texts handed to find_dict.
QueryChars == {"a", "b", "A", "-"}
Queries == UNION {[1..n -> QueryChars] : n \in 0..MaxQueryLen}

FindDict ==
    /\ store = "seeded"
    /\ store' = "done"
    /\ \E kind \in Kinds, query \in Queries, limit \in Usize, offset \in Usize,
          fault \in StorageFaults :
        IF fault = "storage"
        THEN ret' = [op |-> "find_dict", kind |-> kind, query |-> query,
                     limit |-> limit, offset |-> offset, fault |-> fault,
                     result |-> "Err", err |-> FromRusqlite]
        ELSE \E r \in find_dict(db, kind, query, limit, offset) :
                ret' = [op |-> "find_dict", kind |-> kind, query |-> query,
                        limit |-> limit, offset |-> offset, fault |-> fault] @@ r
    /\ UNCHANGED <<file, db>>

\* The ids, payloads and timestamps the cache is called with.
AppIds == {10, 20}
Payloads == {"p1", "p2"}
Times == (-1)..MaxTime

GetCachedApp ==
    /\ store = "open"
    /\ store' = "done"
    /\ \E appid \in AppIds, min_fetched_at \in Times, fault \in StorageFaults :
        IF fault = "storage"
        THEN ret' = [op |-> "get_cached_app", appid |-> appid,
                     min_fetched_at |-> min_fetched_at, fault |-> fault,
                     result |-> "Err", err |-> FromRusqlite, pre |-> db.app_cache]
        ELSE \E v \in get_cached_app(db, appid, min_fetched_at) :
                ret' = [op |-> "get_cached_app", appid |-> appid,
                        min_fetched_at |-> min_fetched_at, fault |-> fault,
                        result |-> "Ok", value |-> v, pre |-> db.app_cache]
    /\ UNCHANGED <<file, db>>

PutCachedApp ==
    /\ store = "open"
    /\ store' = "done"
    /\ \E appid \in AppIds, payload \in Payloads, fetched_at \in Times,
          fault \in StorageFaults :
        /\ db' = IF fault = "storage" THEN db
                 ELSE [db EXCEPT !.app_cache = put_cached_app(db, appid, payload, fetched_at)]
        /\ ret' = [op |-> "put_cached_app", appid |-> appid, payload |-> payload,
                   fetched_at |-> fetched_at, fault |-> fault,
                   result |-> IF fault = "storage" THEN "Err" ELSE "Ok",
                   err |-> IF fault = "storage" THEN FromRusqlite ELSE "none",
                   pre |-> db.app_cache]
    /\ UNCHANGED file

\* now_unix(): seconds since the epoch, 0 when the clock is before it.
NowTimes == {t \in 0..MaxTime : t <= MaxI64}

\* The texts a remote detail call returns: a response that normalizes, one
\* whose success flag is false, and one that is no JSON (an error page).  The
\* two responses carry the key of every id asked for.
FetchedTexts ==
    {JsonText(JObj([k \in {i64_to_string(appid) : appid \in AppIds} |->
                      MakeObj([success |-> Some(JBool(TRUE)),
                               data |-> Some(MakeObj([name |-> Some(JStr("Game"))]))])])),
     JsonText(JObj([k \in {i64_to_string(appid) : appid \in AppIds} |->
                      MakeObj([success |-> Some(JBool(FALSE))])])),
     NotJson}

Fetches == {FetchFailed} \cup {FetchOk(text) : text \in FetchedTexts}

\* handle_app, the one command of the process.
HandleApp ==
    /\ store = "open"
    /\ store' = "done"
    /\ \E appid \in AppIds, ttl_sec \in I64, now \in NowTimes, fetch \in Fetches,
          getFault \in StorageFaults, putFault \in StorageFaults :
        \E r \in handle_app(db, appid, ttl_sec, now, fetch, getFault, putFault) :
            /\ db' = [db EXCEPT !.app_cache = r.cache]
            /\ ret' = [op |-> "handle_app", appid |-> appid, ttl_sec |-> ttl_sec,
                       now |-> now, fetch |-> fetch, getFault |-> getFault,
                       putFault |-> putFault, pre |-> db.app_cache] @@ r
    /\ UNCHANGED file

\* The inputs of normalize_appdetails: the id asked for and the response text.
InitNormalize ==
    /\ file = "absent"
    /\ db = EmptyDb
    /\ store = "closed"
    /\ ret \in {[op |-> "input", appid |-> appid, raw_json |-> text] :
                    appid \in AppIds, text \in AppDetailsTexts}

Normalize ==
    /\ ret.op = "input"
    /\ ret' = [op |-> "normalize_appdetails", appid |-> ret.appid,
               raw_json |-> ret.raw_json,
               out |-> normalize_appdetails(ret.appid, ret.raw_json)]
    /\ UNCHANGED <<file, db, store>>

\* The arguments of parse_search_html.
InitSearch ==
    /\ file = "absent"
    /\ db = EmptyDb
    /\ store = "closed"
    /\ ret \in {[op |-> "input"] @@ i : i \in SearchInputs}

ParseSearchHtml ==
    /\ ret.op = "input"
    /\ ret' = [op |-> "parse_search_html", anchors |-> ret.anchors,
               script |-> ret.script, selected_tags |-> ret.selected_tags,
               with_facets |-> ret.with_facets,
               out |-> parse_search_html([anchors |-> ret.anchors, script |-> ret.script],
                                         ret.selected_tags, ret.with_facets)]
    /\ UNCHANGED <<file, db, store>>

\* The dictionary commands: a process opens the store and runs list or find.
Next == Open \/ EnsureSeeded \/ Exit \/ ListDict \/ FindDict

Spec == Init /\ [][Next]_vars

\* The cache operations: a process opens the store and reads or writes the
\* cache.
NextCache == Open \/ Exit \/ GetCachedApp \/ PutCachedApp

SpecCache == Init /\ [][NextCache]_vars

\* The detail lookups: a process opens the store and runs handle_app.
NextApp == Open \/ Exit \/ HandleApp

SpecApp == Init /\ [][NextApp]_vars

\* parse_search_html applied to a page.
NextSearch == ParseSearchHtml

SpecSearch == InitSearch /\ [][NextSearch]_vars

\* normalize_appdetails applied to a response.
NextNormalize == Normalize

SpecNormalize == InitNormalize /\ [][NextNormalize]_vars

\* Two invocations of the CLI on one database file.
Procs == {1, 2}

\* What an invocation has to show so far: the count it read (-1 before it
\* read one), its result, and the statement of the batch that failed.
Running(count) ==
    [count |-> count, result |-> "none", err |-> "none", seed |-> "not_run",
     failed |-> 0]

\* The database file exists and its tags table is empty: a zero-length file a
\* failed fs::write left, or a database an earlier invocation left unseeded.
\* Neither invocation has started.
InitSeeders ==
    /\ file \in {"empty", "db"}
    /\ db = EmptyDb
    /\ store = [p \in Procs |-> [pc |-> "closed", k |-> 0]]
    /\ ret = [p \in Procs |-> Running(-1)]

\* LocalStore::open of invocation p up to init_schema: the file exists, so it
\* is not written; CREATE ... IF NOT EXISTS leaves existing tables alone.
SeederOpen(p) ==
    /\ store[p].pc = "closed"
    /\ file' = "db"
    /\ db' = IF file = "empty" THEN EmptyDb ELSE db
    /\ store' = [store EXCEPT ![p] = [pc |-> "count", k |-> 0]]
    /\ UNCHANGED ret

\* ensure_seeded of invocation p: SELECT COUNT(*) FROM tags and the branch on
\* it.
SeederCount(p) ==
    /\ store[p].pc = "count"
    /\ IF CountTags(db) = 0
       THEN /\ store' = [store EXCEPT ![p] = [pc |-> "batch", k |-> 1]]
            /\ ret' = [ret EXCEPT ![p] = Running(0)]
       ELSE /\ store' = [store EXCEPT ![p] = [pc |-> "done", k |-> 0]]
            /\ ret' = [ret EXCEPT ![p] =
                          [count |-> CountTags(db), result |-> "Ok", err |-> "none",
                           seed |-> "skipped", failed |-> 0]]
    /\ UNCHANGED <<file, db>>

\* The next statement of invocation p's batch: each statement is its own
\* transaction on the shared file, and the first that fails ends the batch.
SeederStmt(p) ==
    /\ store[p].pc = "batch"
    /\ LET k == store[p].k
           r == ExecStmt(db, SeedBatch[k])
       IN  /\ db' = r.db
           /\ IF ~r.ok
              THEN /\ store' = [store EXCEPT ![p] = [pc |-> "done", k |-> k]]
                   /\ ret' = [ret EXCEPT ![p] =
                                 [count |-> 0, result |-> "Err", err |-> FromRusqlite,
                                  seed |-> "failed", failed |-> k]]
              ELSE IF k = Len(SeedBatch)
              THEN /\ store' = [store EXCEPT ![p] = [pc |-> "done", k |-> k]]
                   /\ ret' = [ret EXCEPT ![p] =
                                 [count |-> 0, result |-> "Ok", err |-> "none",
                                  seed |-> "done", failed |-> 0]]
              ELSE /\ store' = [store EXCEPT ![p] = [pc |-> "batch", k |-> k + 1]]
                   /\ UNCHANGED ret
    /\ UNCHANGED file

\* Two invocations running side by side, one statement at a time.
NextSeeders == \E p \in Procs : SeederOpen(p) \/ SeederCount(p) \/ SeederStmt(p)

SpecSeeders == InitSeeders /\ [][NextSeeders]_vars

----------------------------------------------------------------------------
(* Claims about the re-seed: C1 - C4. *)

\* The last operation ran ensure_seeded (open runs it as its last step).
RanEnsureSeeded == ret.op \in {"open", "ensure_seeded"}

\* The position of the batch's first DELETE.
FirstDelete == CHOOSE i \in 1..Len(SeedBatch) :
                  /\ SeedBatch[i].op = "DELETE"
                  /\ \A j \in 1..(i - 1) : SeedBatch[j].op # "DELETE"

\* C1: the re-seed is atomic: when one of its statements fails after the
\* first DELETE has run, the six tables hold what they held before the
\* re-seed started.
C1_SeedAtomic ==
    (RanEnsureSeeded /\ ret.seed = "failed" /\ ret.failed > FirstDelete)
        => SixTables(db) = SixTables(ret.pre)

\* The full-text table of kind k holds exactly one row for every row of the
\* primary table, with the same id (as text) and name, and no other row.
Mirrored(d, k) ==
    /\ Len(d.fts[k]) = Cardinality(d.prim[k])
    /\ {d.fts[k][i] : i \in 1..Len(d.fts[k])} = {MirrorRow(k, r) : r \in d.prim[k]}

\* C2: the mirror invariant: once open / ensure_seeded has returned, with or
\* without an error, every primary table and its full-text table mirror each
\* other.
C2_MirrorInvariant ==
    (file = "db" /\ ret.op # "init") => \A k \in Kinds : Mirrored(db, k)

\* C3: ensure_seeded re-seeds whenever any of the three primary tables is
\* empty: after a successful call from such a state the six tables equal the
\* bundled snapshot.
C3_ReseedWhenAnyEmpty ==
    (RanEnsureSeeded /\ ret.result = "Ok" /\ \E k \in Kinds : ret.pre.prim[k] = {})
        => SixTables(db) = SixTables(SnapshotDb)

\* The last operation failed inside ensure_seeded.
EnsureSeededFailed ==
    RanEnsureSeeded /\ ret.result = "Err" /\ ret.site \in {"count", "seed_fs_write", "stmt"}

----------------------------------------------------------------------------
(* Claims about list_dict and find_dict: C5 - C8. *)

\* The slice [offset, offset + limit) of a sequence.
Page(seq, offset, limit) ==
    SubSeq(seq, offset + 1, IF offset + limit > Len(seq) THEN Len(seq) ELSE offset + limit)

StrictlyAscendingByName(items) ==
    \A i \in 1..(Len(items) - 1) : TextLess(items[i].name, items[i + 1].name)

\* C5: for every kind, limit and offset list_dict returns the slice
\* [offset, offset + limit) of the kind's rows in strictly ascending name
\* order, and total is the row count of the table.
C5_ListDictSlice ==
    (ret.op = "list_dict" /\ ret.result = "Ok") =>
        /\ \E sorted \in OrderByName(DictItems(db, ret.kind)) :
              ret.items = Page(sorted, ret.offset, ret.limit)
        /\ StrictlyAscendingByName(ret.items)
        /\ ret.total = Cardinality(db.prim[ret.kind])

\* The number of rows of kind k's index that match the query's full-text
\* expression.
IndexMatches(d, k, query) ==
    Cardinality({i \in 1..Len(d.fts[k]) :
        FtsMatches(d.fts[k][i].name,
                   MatchTerms(SplitOn(to_fts_query(query), {" "}, <<>>)))})

\* C6: the substring fallback runs only when the full-text step yields no row
\* (the step is skipped when the normalized query is empty); when the step
\* yields a row the result is exactly its rows, by rank ascending, total is
\* the number of index rows matching the expression, and no entry carries the
\* sentinel rank.
C6_FindPath ==
    (ret.op = "find_dict" /\ ret.result = "Ok") =>
        /\ ret.fallbackRan => ret.ftsRows = <<>>
        /\ to_fts_query(ret.query) = <<>> => (~ret.ftsRan /\ ret.ftsRows = <<>>)
        /\ ret.ftsRows # <<>> =>
              /\ ret.items = ret.ftsRows
              /\ \A i \in 1..(Len(ret.items) - 1) :
                    ret.items[i].rank <= ret.items[i + 1].rank
              /\ ret.total = IndexMatches(db, ret.kind, ret.query)
              /\ \A i \in 1..Len(ret.items) : ret.items[i].rank # FallbackRank

\* The full-text step yielded two rows or more and they are the result.
C6_Witness ==
    /\ ret.op = "find_dict" /\ ret.result = "Ok"
    /\ Len(ret.ftsRows) >= 2 /\ ~ret.fallbackRan /\ ret.total > Len(ret.items)

\* The rows of kind k whose name, lower-cased and without spaces and hyphens,
\* contains the query lower-cased and stripped of non-alphanumerics.
SubstringRows(d, k, query) ==
    {[id |-> IdAsText(k, r.id), name |-> r.name, rank |-> FallbackRank] :
        r \in {x \in d.prim[k] :
                Contains(Remove(to_lowercase(x.name), {" ", "-"}),
                         Remove(to_lowercase(query), AllChars \ AlnumChars))}}

\* C7: on the fallback path the entries are the page [offset, offset + limit)
\* of the substring matches ordered by name, every one with rank 1000.0, and
\* total is the number of all substring matches.
C7_FallbackPage ==
    (ret.op = "find_dict" /\ ret.result = "Ok" /\ ret.fallbackRan) =>
        /\ \E sorted \in OrderByName(SetToSeq(SubstringRows(db, ret.kind, ret.query))) :
              ret.items = Page(sorted, ret.offset, ret.limit)
        /\ \A i \in 1..Len(ret.items) : ret.items[i].rank = FallbackRank
        /\ ret.total = Cardinality(SubstringRows(db, ret.kind, ret.query))

\* The query holds no alphanumeric character.
OnlyPunctuation(query) == \A i \in 1..Len(query) : ~is_alphanumeric(query[i])

\* C8: for a query without any alphanumeric character to_fts_query yields the
\* empty string, find_dict issues no MATCH, takes the fallback and succeeds,
\* and every entry carries the sentinel rank.
C8_PunctuationQuery ==
    (ret.op = "find_dict" /\ OnlyPunctuation(ret.query) /\ ret.fault = "none") =>
        /\ to_fts_query(ret.query) = <<>>
        /\ ret.result = "Ok"
        /\ ~ret.ftsRan
        /\ ret.fallbackRan
        /\ \A i \in 1..Len(ret.items) : ret.items[i].rank = FallbackRank

\* A query of punctuation alone returned rows.
C8_Witness ==
    /\ ret.op = "find_dict" /\ ret.query # <<>> /\ OnlyPunctuation(ret.query)
    /\ ret.result = "Ok" /\ ret.items # <<>>

----------------------------------------------------------------------------
(* Claims about the detail cache: C9 - C10. *)

\* C9: get_cached_app returns the stored payload exactly when a row for the
\* id exists with fetched_at >= min_fetched_at; an older row gives what no row
\* gives; and the call leaves every cache row as it was.
C9_GetFreshOnly ==
    (ret.op = "get_cached_app" /\ ret.result = "Ok") =>
        /\ ret.value.some <=>
              \E r \in ret.pre : r.appid = ret.appid /\ r.fetched_at >= ret.min_fetched_at
        /\ ret.value.some =>
              \E r \in ret.pre : r.appid = ret.appid /\ r.payload_json = ret.value.payload
        /\ ~ret.value.some => ret.value = NoPayload
        /\ db.app_cache = ret.pre

\* A stale row was looked up: the answer is absent and the row is still there.
C9_Witness ==
    /\ ret.op = "get_cached_app" /\ ret.result = "Ok" /\ ~ret.value.some
    /\ \E r \in db.app_cache : r.appid = ret.appid /\ r.fetched_at < ret.min_fetched_at

\* C10: put_cached_app is an unconditional upsert: the cache holds at most
\* one row per id, the row of the id just put carries that put's payload and
\* fetched_at, the rows of other ids are unchanged, and a get with the put's
\* timestamp right after the put returns its payload.
C10_PutLastWriteWins ==
    /\ \A r1, r2 \in db.app_cache : r1.appid = r2.appid => r1 = r2
    /\ (ret.op = "put_cached_app" /\ ret.result = "Ok") =>
          /\ {r \in db.app_cache : r.appid = ret.appid}
                = {[appid |-> ret.appid, payload_json |-> ret.payload,
                    fetched_at |-> ret.fetched_at]}
          /\ {r \in db.app_cache : r.appid # ret.appid}
                = {r \in ret.pre : r.appid # ret.appid}
          /\ get_cached_app(db, ret.appid, ret.fetched_at)
                = {[some |-> TRUE, payload |-> ret.payload]}

\* A put with an older fetched_at replaced a newer row of the same id, beside
\* a row of another id.
C10_Witness ==
    /\ ret.op = "put_cached_app" /\ ret.result = "Ok"
    /\ \E r \in ret.pre : /\ r.appid = ret.appid
                          /\ r.fetched_at > ret.fetched_at
                          /\ r.payload_json # ret.payload
    /\ \E r \in db.app_cache : r.appid # ret.appid

----------------------------------------------------------------------------
(* Claims about the detail lookup: C11 - C13, C20. *)

\* The tables handle_app started from.
PreDb == [db EXCEPT !.app_cache = ret.pre]

\* C11: handle_app's staleness threshold is now - max(ttl, 0), computed
\* without leaving i64 (the saturating subtraction never saturates); the
\* cached row is a hit exactly when its fetched_at is at least that; and a
\* negative ttl gives what ttl = 0 gives.
C11_MinFetchedAt ==
    ret.op = "handle_app" =>
        LET ttl == IF ret.ttl_sec < 0 THEN 0 ELSE ret.ttl_sec
        IN  /\ ret.min_ts = ret.now - ttl
            /\ ret.now - ttl \in I64
            /\ ret.getFault = "none" =>
                  (ret.got <=> \E r \in ret.pre : /\ r.appid = ret.appid
                                                  /\ r.fetched_at >= ret.now - ttl)
            /\ ret.ttl_sec < 0 =>
                  \E o \in handle_app(PreDb, ret.appid, 0, ret.now, ret.fetch,
                                      ret.getFault, ret.putFault) :
                      \A f \in DOMAIN o : ret[f] = o[f]

\* A lookup with the most negative ttl hit a row fetched at this very second.
C11_Witness ==
    /\ ret.op = "handle_app" /\ ret.ttl_sec = MinI64 /\ ret.got
    /\ \E r \in ret.pre : r.appid = ret.appid /\ r.fetched_at = ret.now

\* How often handle_app made the call.
Calls(steps, call) == Cardinality({i \in DOMAIN steps : steps[i] = call})

\* The rows of the id asked for that are fresh at the lookup's time and ttl.
FreshRows ==
    {r \in ret.pre : /\ r.appid = ret.appid
                     /\ r.fetched_at >= ret.now - (IF ret.ttl_sec < 0 THEN 0 ELSE ret.ttl_sec)}

\* C12: handle_app calls get_cached_app first.  On a fresh row it neither
\* fetches nor writes, normalizes the cached payload and, when it succeeds,
\* reports cached = true.  Otherwise it fetches once; a fetch that returned a
\* text is followed by one put_cached_app(appid, text, now), the fetched text
\* is what is normalized, and a success reports cached = false.  (An error
\* of a step ends the lookup there.)
C12_CacheFirst ==
    ret.op = "handle_app" =>
        /\ ret.steps[1] = "get_cached_app"
        /\ Calls(ret.steps, "get_cached_app") = 1
        /\ ret.getFault = "none" =>
              IF FreshRows # {}
              THEN /\ ret.steps = <<"get_cached_app", "normalize_appdetails">>
                   /\ db.app_cache = ret.pre
                   /\ \E r \in FreshRows : ret.raw = r.payload_json
                   /\ ret.result = "Ok" => ret.cached
              ELSE /\ Len(ret.steps) >= 2
                   /\ ret.steps[2] = "fetch_appdetails_json"
                   /\ Calls(ret.steps, "fetch_appdetails_json") = 1
                   /\ ret.fetch.ok =>
                         /\ Len(ret.steps) >= 3
                         /\ ret.steps[3] = "put_cached_app"
                         /\ Calls(ret.steps, "put_cached_app") = 1
                         /\ ret.putFault = "none" =>
                               /\ {r \in db.app_cache : r.appid = ret.appid}
                                     = {[appid |-> ret.appid,
                                         payload_json |-> ret.fetch.text,
                                         fetched_at |-> ret.now]}
                               /\ ret.steps[Len(ret.steps)] = "normalize_appdetails"
                               /\ ret.raw = ret.fetch.text
                   /\ ret.result = "Ok" => ~ret.cached

\* A stale row was found: the lookup fetched, stored the fetched text over the
\* row and reported cached = false.
C12_Witness ==
    /\ ret.op = "handle_app" /\ ret.result = "Ok" /\ ~ret.cached
    /\ \E r \in ret.pre : /\ r.appid = ret.appid
                          /\ r.fetched_at < ret.min_ts
                          /\ r.payload_json # ret.fetch.text
    /\ ret.steps = <<"get_cached_app", "fetch_appdetails_json", "put_cached_app",
                     "normalize_appdetails">>

\* C13: every handle_app reads the cache once; it writes it once when its
\* fetch returned a text and not at all otherwise, a failed fetch is a Network
\* error that leaves the cache as it was; and no step of any process removes
\* a cache row: every id that has a row keeps one, and rows of ids other than
\* the one looked up are unchanged.
C13_CacheFrame ==
    [][/\ \A r \in db.app_cache : \E r2 \in db'.app_cache : r2.appid = r.appid
       /\ ret'.op = "handle_app" =>
            /\ Calls(ret'.steps, "get_cached_app") = 1
            /\ Calls(ret'.steps, "put_cached_app")
                  = (IF /\ Calls(ret'.steps, "fetch_appdetails_json") = 1
                        /\ ret'.fetch.ok
                     THEN 1 ELSE 0)
            /\ Calls(ret'.steps, "fetch_appdetails_json") <= 1
            /\ (Calls(ret'.steps, "fetch_appdetails_json") = 1 /\ ~ret'.fetch.ok) =>
                  (db'.app_cache = db.app_cache /\ ret'.err = "Network")
            /\ db'.app_cache # db.app_cache =>
                  (Calls(ret'.steps, "put_cached_app") = 1 /\ ret'.putFault = "none")
            /\ {r \in db'.app_cache : r.appid # ret'.appid}
                  = {r \in db.app_cache : r.appid # ret'.appid}
       /\ ret'.op # "handle_app" => db'.app_cache = db.app_cache]_vars

\* A lookup of an id with a stale row failed in the fetch, and the row is
\* still there, beside a row of another id.
C13_Witness ==
    /\ ret.op = "handle_app" /\ ret.result = "Err" /\ ret.err = "Network"
    /\ \E r \in db.app_cache : r.appid = ret.appid /\ r.fetched_at < ret.min_ts
    /\ \E r \in db.app_cache : r.appid # ret.appid
    /\ db.app_cache = ret.pre

\* C20: a lookup that fails in normalize_appdetails (NotFound or
\* UpstreamSchema) leaves the cache row of its id as it was before the lookup.
C20_FailedPayloadNotCached ==
    (/\ ret.op = "handle_app" /\ ret.result = "Err"
     /\ ret.steps[Len(ret.steps)] = "normalize_appdetails"
     /\ ret.err \in {"NotFound", "UpstreamSchema"}) =>
        {r \in db.app_cache : r.appid = ret.appid}
            = {r \in ret.pre : r.appid = ret.appid}

----------------------------------------------------------------------------
(* Claims about the search extraction: C14 - C16. *)

\* The decimal texts of n: an optional sign and digits, leading zeros allowed.
Zeros(z) == [i \in 1..z |-> "0"]
TextsOf(n) ==
    {sign \o Zeros(z) \o IntToText(IF n < 0 THEN -n ELSE n) :
        sign \in (IF n < 0 THEN {<<"-">>} ELSE IF n = 0 THEN {<<>>, <<"+">>, <<"-">>}
                  ELSE {<<>>, <<"+">>}),
        z \in 0..MaxAttrLen}

\* text is the decimal text of an i64.
IsI64Text(text) == \E n \in I64 : text \in TextsOf(n)
I64OfText(text) == CHOOSE n \in I64 : text \in TextsOf(n)

\* The positions of the anchors that are search result rows with an id that
\* reads as an integer.
RowPositions(anchors) ==
    {i \in DOMAIN anchors : /\ anchors[i].row
                            /\ anchors[i].appid.some
                            /\ IsI64Text(anchors[i].appid.v)}

Blank(text) == \A i \in DOMAIN text : text[i] = " "

\* name is the first title without the spaces around it, or "Unknown".
NameOf(anchor, name) ==
    IF anchor.titles = <<>> THEN name = UnknownTitle
    ELSE IF Blank(anchor.titles[1]) THEN name = UnknownTitle
    ELSE \E a, b \in DOMAIN anchor.titles[1] :
            /\ name = SubSeq(anchor.titles[1], a, b)
            /\ anchor.titles[1][a] # " " /\ anchor.titles[1][b] # " "
            /\ \A i \in DOMAIN anchor.titles[1] :
                  (i < a \/ i > b) => anchor.titles[1][i] = " "

\* price is absent for no or a blank first price element, and otherwise its
\* text with single spaces between the words and none around them.
PriceOf(anchor, price) ==
    IF anchor.prices = <<>> THEN ~price.some
    ELSE IF Blank(anchor.prices[1]) THEN ~price.some
    ELSE /\ price.some
         /\ Remove(price.v, {" "}) = Remove(anchor.prices[1], {" "})
         /\ price.v[1] # " " /\ price.v[Len(price.v)] # " "
         /\ \A i \in 1..(Len(price.v) - 1) : ~(price.v[i] = " " /\ price.v[i + 1] = " ")
         /\ Len(SplitOn(price.v, {" "}, <<>>))
               = Len(SplitOn(anchor.prices[1], {" "}, <<>>))

\* C14: a successful parse_search_html returns one item per search result
\* row whose id reads as an integer, in document order, whatever titles and
\* prices the rows have (no title gives "Unknown", no price gives none);
\* other anchors are skipped; and with no such row the call fails with
\* UpstreamSchema.
C14_RowsExtracted ==
    ret.op = "parse_search_html" =>
        LET rows == RowPositions(ret.anchors)
        IN  /\ rows = {} => (ret.out.result = "Err" /\ ret.out.err = "UpstreamSchema")
            /\ (rows # {} /\ ~ret.with_facets) => ret.out.result = "Ok"
            /\ ret.out.result = "Ok" =>
                  /\ Len(ret.out.items) = Cardinality(rows)
                  /\ \A i \in rows :
                        LET item == ret.out.items[Cardinality({j \in rows : j <= i})]
                        IN  /\ item.appid = I64OfText(ret.anchors[i].appid.v)
                            /\ NameOf(ret.anchors[i], item.name)
                            /\ PriceOf(ret.anchors[i], item.price)

\* A page with a row that has no id and a row with an id but neither title nor
\* price gave one item, named "Unknown" and without price.
C14_Witness ==
    /\ ret.op = "parse_search_html" /\ ret.out.result = "Ok"
    /\ \E i \in DOMAIN ret.anchors : ret.anchors[i].row /\ ~ret.anchors[i].appid.some
    /\ Len(ret.out.items) = 1
    /\ ret.out.items[1].name = UnknownTitle /\ ~ret.out.items[1].price.some

\* value resolves to an integer: an integer of i64, or the decimal text of one.
Resolves(value) ==
    \/ value.t = "int" /\ value.int \in I64
    \/ value.t = "str" /\ IsI64Text(value.str)

Resolved(value) == IF value.t = "int" THEN value.int ELSE I64OfText(value.str)

\* The positions of the elements of a first array that are pairs of values
\* resolving to integers.
PairPositions(first) ==
    {i \in DOMAIN first.arr : /\ Len(first.arr[i].arr) = 2
                              /\ Resolves(first.arr[i].arr[1])
                              /\ Resolves(first.arr[i].arr[2])}

\* The page's script is the call with first, an array of arrays, as its
\* first argument and a second array behind it.
CallsWith(first) ==
    /\ \A i \in DOMAIN first.arr : first.arr[i].t = "arr"
    /\ \E second \in SecondArrays : ret.script = FacetCall(<<first, second>>)

\* The facets are the pairs of first, in order, selected when in the filter.
FacetsOf(first, facets) ==
    /\ Len(facets) = Cardinality(PairPositions(first))
    /\ \A i \in PairPositions(first) :
          LET facet == facets[Cardinality({j \in PairPositions(first) : j <= i})]
          IN  /\ facet.tagid = Resolved(first.arr[i].arr[1])
              /\ facet.count = Resolved(first.arr[i].arr[2])
              /\ facet.selected <=> (facet.tagid \in ret.selected_tags)

\* C15: when the first array of the facet call is a well-formed array of
\* arrays, the extraction succeeds and returns, in order, one facet for each
\* element that has two members both resolving to an integer and none for the
\* others, selected exactly when the tagid is in the caller's filter.
C15_FacetPairs ==
    (ret.op = "parse_search_html" /\ ret.with_facets /\ RowPositions(ret.anchors) # {}) =>
        \A first \in FirstArrays :
            CallsWith(first) =>
                /\ ret.out.result = "Ok"
                /\ ret.out.facets.some
                /\ FacetsOf(first, ret.out.facets.v)

\* The facet block of a page with rows is unusable: the pattern does not
\* match, or its first group is no array of arrays.
FacetBlockBad ==
    \/ ~FirstGroup(ret.script).some
    \/ ~from_str_pairs(FirstGroup(ret.script).v).some

\* C16: parse_search_html returns rows and facets or an error, never rows
\* alone.  With facets requested and rows found, no match of the call or a
\* first fragment that does not parse fails the call with UpstreamSchema;
\* with no rows the call fails with UpstreamSchema for the missing rows,
\* whatever the facet block is; with facets not requested the result is what
\* it is for a page without script, and carries no facets.
C16_NoPartialSuccess ==
    ret.op = "parse_search_html" =>
        /\ ret.out.result = "Err" => "items" \notin DOMAIN ret.out
        /\ (ret.with_facets /\ RowPositions(ret.anchors) # {} /\ FacetBlockBad) =>
              /\ ret.out.result = "Err" /\ ret.out.err = "UpstreamSchema"
              /\ ret.out.message \in {"facets block not found in search HTML",
                                       "facet parse failed"}
        /\ (ret.with_facets /\ RowPositions(ret.anchors) # {} /\ ~FacetBlockBad) =>
              (ret.out.result = "Ok" /\ ret.out.facets.some)
        /\ RowPositions(ret.anchors) = {} =>
              /\ ret.out.result = "Err" /\ ret.out.err = "UpstreamSchema"
              /\ ret.out.message = "no search_result_row entries found in store response"
        /\ ~ret.with_facets =>
              /\ ret.out = parse_search_html([anchors |-> ret.anchors, script |-> <<>>],
                                              ret.selected_tags, FALSE)
              /\ ret.out.result = "Ok" => ~ret.out.facets.some

\* Rows were found and facets requested on a page whose call has an unclosed
\* first array: the call failed in the facet parse.
C16_Witness ==
    /\ ret.op = "parse_search_html" /\ ret.with_facets
    /\ RowPositions(ret.anchors) # {}
    /\ FirstGroup(ret.script).some
    /\ ret.out.result = "Err" /\ ret.out.message = "facet parse failed"

----------------------------------------------------------------------------
(* Claims about normalize_appdetails: C17 - C18. *)

\* The response is JSON with an object at the top that has the id's key.
HasIdKey ==
    /\ ret.raw_json.json
    /\ ret.raw_json.value.t = "obj"
    /\ i64_to_string(ret.appid) \in DOMAIN ret.raw_json.value.obj

\* The value under the id's key.
UnderIdKey == ret.raw_json.value.obj[i64_to_string(ret.appid)]

\* value has the member.
HasMember(value, name) == value.t = "obj" /\ name \in DOMAIN value.obj

\* The success flag under the id's key is the boolean true.
SuccessTrue ==
    /\ HasMember(UnderIdKey, "success")
    /\ UnderIdKey.obj["success"] = JBool(TRUE)

\* C17: normalize_appdetails fails with UpstreamSchema on text that is no
\* JSON or has no member under the id's key; otherwise with NotFound unless
\* the success flag is the boolean true, whether or not there is a data
\* member; otherwise with UpstreamSchema when there is no data member; and
\* succeeds in every other case.
C17_FailurePrecedence ==
    ret.op = "normalize_appdetails" =>
        IF ~HasIdKey THEN ret.out = JsonErr("UpstreamSchema")
        ELSE IF ~SuccessTrue THEN ret.out = JsonErr("NotFound")
        ELSE IF ~HasMember(UnderIdKey, "data") THEN ret.out = JsonErr("UpstreamSchema")
        ELSE ret.out.result = "Ok"

\* A response with success = false and a data object failed with NotFound.
C17_Witness ==
    /\ ret.op = "normalize_appdetails" /\ HasIdKey
    /\ HasMember(UnderIdKey, "success") /\ UnderIdKey.obj["success"] = JBool(FALSE)
    /\ HasMember(UnderIdKey, "data") /\ UnderIdKey.obj["data"].t = "obj"
    /\ ret.out = JsonErr("NotFound")

\* The positions of the elements of a categories / genres array that have an
\* integer id and a string description.
EntryPositions(items) ==
    {i \in DOMAIN items : /\ HasMember(items[i], "id")
                          /\ items[i].obj["id"].t = "int"
                          /\ HasMember(items[i], "description")
                          /\ items[i].obj["description"].t = "str"}

\* list holds, in order, the entries of the member of data with that name;
\* it is empty when the member is absent or no array.
EntriesOf(data, name, list) ==
    IF ~HasMember(data, name) THEN list = <<>>
    ELSE IF data.obj[name].t # "arr" THEN list = <<>>
    ELSE LET items == data.obj[name].arr
         IN  /\ Len(list) = Cardinality(EntryPositions(items))
             /\ \A i \in EntryPositions(items) :
                   list[Cardinality({j \in EntryPositions(items) : j <= i})]
                     = [id |-> i64_to_string(items[i].obj["id"].int),
                        name |-> items[i].obj["description"].str]

\* opt is the string member of data with that name, absent when there is
\* none.
StringOf(data, name, opt) ==
    IF HasMember(data, name)
    THEN IF data.obj[name].t = "str" THEN opt = Some(data.obj[name].str) ELSE opt = None
    ELSE opt = None

\* C18: with the id's key, success = true and a data member present,
\* normalize_appdetails succeeds: the name is the data's name when that is a
\* string and "Unknown" otherwise, optional strings that are absent come out
\* absent, and categories and genres hold, in order, the elements with an
\* integer id and a string description (none when the member is absent or no
\* array).
C18_NeverFailsAfterChecks ==
    (/\ ret.op = "normalize_appdetails" /\ HasIdKey /\ SuccessTrue
     /\ HasMember(UnderIdKey, "data")) =>
        LET data == UnderIdKey.obj["data"]
        IN  /\ ret.out.result = "Ok"
            /\ ret.out.app.appid = ret.appid
            /\ \E name \in {None, Some(ret.out.app.name)} :
                  /\ StringOf(data, "name", name)
                  /\ ~name.some => ret.out.app.name = "Unknown"
            /\ StringOf(data, "short_description", ret.out.app.short_description)
            /\ StringOf(data, "supported_languages", ret.out.app.supported_languages)
            /\ EntriesOf(data, "categories", ret.out.app.categories)
            /\ EntriesOf(data, "genres", ret.out.app.genres)

\* A data object without a name, whose categories array has an entry behind
\* an element without id, gave the name "Unknown" and that one category.
C18_Witness ==
    /\ ret.op = "normalize_appdetails" /\ ret.out.result = "Ok"
    /\ ret.out.app.name = "Unknown"
    /\ ~ret.out.app.short_description.some
    /\ Len(ret.out.app.categories) = 1
    /\ Len(UnderIdKey.obj["data"].obj["categories"].arr) = 2
    /\ ~HasMember(UnderIdKey.obj["data"].obj["categories"].arr[1], "id")

----------------------------------------------------------------------------
(* Claim about the pages of find_dict: C19. *)

\* C19: over the same tables, kind and query, find_dict gives the same total
\* and takes the same path (full-text or fallback) for every limit >= 1 and
\* every offset; an offset at or beyond the full-text matches gives an empty
\* page with the full-text total.
C19_PathIndependentOfPage ==
    (ret.op = "find_dict" /\ ret.result = "Ok" /\ ret.limit >= 1) =>
        \A limit \in Usize \ {0}, offset \in Usize :
            \A r \in find_dict(db, ret.kind, ret.query, limit, offset) :
                /\ r.result = "Ok"
                /\ r.total = ret.total
                /\ r.fallbackRan = ret.fallbackRan
                /\ \A i \in DOMAIN r.items :
                      (r.items[i].rank = FallbackRank) <=> ret.fallbackRan

----------------------------------------------------------------------------
(* Claim about two invocations seeding at once: C21. *)

\* Both invocations have finished, and both read an empty tags table.
BothSeeded ==
    \A p \in Procs : store[p].pc = "done" /\ ret[p].count = 0

\* C21: when two invocations that both read an empty tags table have both
\* finished their re-seed, interleaved statement by statement, every primary
\* table equals the snapshot's and every full-text table holds exactly one
\* row for each primary row.
C21_ConcurrentSeedLeavesSnapshot ==
    BothSeeded =>
        \A k \in Kinds : db.prim[k] = SeedPrimary[k] /\ Mirrored(db, k)

====
